---- MODULE Spec2Model ----
(***************************************************************************)
(* Model of source/services/vehicle/lib/anomaly.js: the anomaly service of *)
(* the connected vehicle solution.  Three operations                       *)
(* (listAnomaliesByVehicle, getVehicleAnomaly, acknowledgeVehicleAnomaly)  *)
(* each look up the ownership table and then work on the anomaly table     *)
(* through DynamoDB DocumentClient calls with error-first callbacks.       *)
(*                                                                         *)
(* An invocation is a process p.  Its entry action issues the first store  *)
(* call; every other action is one callback of the source: the store       *)
(* answers the pending call (an error, or the data it holds at that        *)
(* moment) and the callback body runs.                                     *)
(*                                                                         *)
(* The store is the DocumentClient as the service sees it: a get or query  *)
(* answers from the current contents of the table, a query answers the     *)
(* whole partition in one page, and a put that is answered with an error   *)
(* has not written.  Under Spec and SpecSeq the service is the only writer  *)
(* of the tables; SpecExt adds the writer outside the service (the         *)
(* pipeline that creates the anomaly records) overwriting records while    *)
(* acknowledges are in flight.                                             *)
(***************************************************************************)
EXTENDS Integers, Sequences, FiniteSets, TLC

\* Number of invocations of the service in one behaviour.
NumProcs == 2

Procs == 1..NumProcs

\* Number of puts of the writer outside the service in one behaviour.
MaxExternalPuts == 1

\* ------------------------------------------------------------------ values

\* JavaScript null.
Null == [js |-> "null"]

\* The empty object {} that DocumentClient.get answers when no item matches.
EmptyObj == [x \in {} |-> TRUE]

\* process.env.VEHICLE_ANOMALY_TBL and process.env.VEHICLE_OWNER_TBL
ddbTable == "VEHICLE_ANOMALY_TBL"
ownerTable == "VEHICLE_OWNER_TBL"

Users == {"alice", "bob"}
Vins == {"VIN123", "VIN456"}
\* Anomaly ids in the order of the table's sort key.
AnomalyIdSeq == <<"A1", "A2">>
AnomalyIds == {AnomalyIdSeq[i] : i \in 1..Len(AnomalyIdSeq)}

\* The authentication ticket of a user.
Ticket(u) == [k \in {"cognito:username"} |-> u]

\* Error values of the store client (AWS SDK error objects).
StoreErrors ==
    { [code |-> "ProvisionedThroughputExceededException",
       message |-> "The level of configured provisioned throughput for the table was exceeded."] }

\* The primary key attributes of each table.
KeySchema(t) == IF t = ownerTable THEN {"owner_id", "vin"} ELSE {"vin", "anomaly_id"}

\* _.isEmpty of an object or null
isEmpty(obj) == obj = Null \/ DOMAIN obj = {}

\* JavaScript truthiness of an error argument (an object or null).
Truthy(v) == v # Null

\* ------------------------------------------------------------------ store

\* item matches the Key of a get
MatchesKey(item, Key) == \A k \in DOMAIN Key : item[k] = Key[k]

\* DocumentClient.get: {Item: ...} when an item has the key, {} otherwise.
DocGet(T, params) ==
    IF \E item \in T[params.TableName] : MatchesKey(item, params.Key)
    THEN [Item |-> CHOOSE item \in T[params.TableName] : MatchesKey(item, params.Key)]
    ELSE EmptyObj

\* DocumentClient.query with KeyConditionExpression 'vin = :vin': the items of
\* the partition, in sort key order.
DocQuery(T, params) ==
    LET v == params.ExpressionAttributeValues[":vin"]
        part == {item \in T[params.TableName] : item.vin = v}
        ids == SelectSeq(AnomalyIdSeq, LAMBDA a : \E item \in part : item.anomaly_id = a)
        Items == [i \in 1..Len(ids) |-> CHOOSE item \in part : item.anomaly_id = ids[i]]
    IN [Items |-> Items, Count |-> Len(ids), ScannedCount |-> Len(ids)]

\* DocumentClient.put: full overwrite of the item with the same primary key.
DocPut(T, params) ==
    LET ks == KeySchema(params.TableName)
        same(item) == \A k \in ks : item[k] = params.Item[k]
    IN [T EXCEPT ![params.TableName] =
            {item \in @ : ~same(item)} \cup {params.Item}]

\* ------------------------------------------------------------------ state

VARIABLES
    tables,        \* table name -> set of items (the two DynamoDB tables)
    pc,            \* p -> "idle", the store call p waits for, or "done"
    op,            \* p -> the operation invoked
    ticket,        \* p -> argument ticket
    vin,           \* p -> argument vin
    anomalyId,     \* p -> argument anomalyId
    anomaly_data,  \* p -> the answer of the anomaly get, held by the put callback
    calls,         \* p -> the store calls issued so far: <<[method, params]>>
    replies,       \* p -> the err the store gave to each answered call
    reads,         \* p -> the data the store gave to each answered call
    cbs,           \* p -> the (err, data) pairs passed to cb so far
    afterAck,      \* p -> p started after an acknowledge of its key succeeded
    external       \* the external writer: the item it wrote last (Null before)
                   \* and the number of its puts

vars == <<tables, pc, op, ticket, vin, anomalyId, anomaly_data, calls, replies,
          reads, cbs, afterAck, external>>

\* The tables before any invocation: alice owns VIN123; VIN123 has the
\* unacknowledged anomaly A1 and possibly A2; VIN456 has an acknowledged A1.
InitOwners == { [owner_id |-> "alice", vin |-> "VIN123"] }

InitAnomalies ==
    { { [vin |-> "VIN123", anomaly_id |-> "A1", acknowledged |-> FALSE, code |-> "P0171"],
        [vin |-> "VIN456", anomaly_id |-> "A1", acknowledged |-> TRUE, code |-> "P0420"] },
      { [vin |-> "VIN123", anomaly_id |-> "A1", acknowledged |-> FALSE, code |-> "P0171"],
        [vin |-> "VIN123", anomaly_id |-> "A2", acknowledged |-> FALSE, code |-> "P0300"],
        [vin |-> "VIN456", anomaly_id |-> "A1", acknowledged |-> TRUE, code |-> "P0420"] } }

Init ==
    /\ \E A \in InitAnomalies :
          tables = [t \in {ownerTable, ddbTable} |-> IF t = ownerTable THEN InitOwners ELSE A]
    /\ pc = [p \in Procs |-> "idle"]
    /\ op = [p \in Procs |-> "none"]
    /\ ticket = [p \in Procs |-> Null]
    /\ vin = [p \in Procs |-> "none"]
    /\ anomalyId = [p \in Procs |-> "none"]
    /\ anomaly_data = [p \in Procs |-> Null]
    /\ calls = [p \in Procs |-> <<>>]
    /\ replies = [p \in Procs |-> <<>>]
    /\ reads = [p \in Procs |-> <<>>]
    /\ cbs = [p \in Procs |-> <<>>]
    /\ afterAck = [p \in Procs |-> FALSE]
    /\ external = [item |-> Null, puts |-> 0]

\* ------------------------------------------------------------------ helpers

\* cb(err, data)
cb(p, err, data) == cbs' = [cbs EXCEPT ![p] = Append(@, [err |-> err, data |-> data])]

\* docClient.<method>(params, callback): the call is issued and p waits for it.
Issue(p, method, params, waitAt) ==
    /\ calls' = [calls EXCEPT ![p] = Append(@, [method |-> method, params |-> params])]
    /\ pc' = [pc EXCEPT ![p] = waitAt]

\* The call p waits for.
Pending(p) == calls[p][Len(calls[p])]

\* The error objects the service builds itself.
NotRegistered == [error |-> [message |-> "The vehicle requested is not registered under the user."]]
NotExists == [error |-> [message |-> "The anomaly record requested does not exist."]]

\* The invocation of p has delivered an acknowledge success for the key (v, a).
AckSucceeded(q, v, a) ==
    /\ pc[q] = "done" /\ op[q] = "acknowledge" /\ vin[q] = v /\ anomalyId[q] = a
    /\ Len(cbs[q]) > 0 /\ cbs[q][1].err = Null

\* p may start: invocations are numbered in the order they start.
MayStart(p) == pc[p] = "idle" /\ \A q \in Procs : q < p => pc[q] # "idle"

\* The verify-user-owns-vehicle get that opens every operation.
OwnerParams(t, v) ==
    [TableName |-> ownerTable, Key |-> [owner_id |-> t["cognito:username"], vin |-> v]]

\* The arguments of the call are bound; afterAck records whether the call
\* starts after an acknowledge of the same record has reported success.
Enter(p, o, t, v, a) ==
    /\ op' = [op EXCEPT ![p] = o]
    /\ ticket' = [ticket EXCEPT ![p] = t]
    /\ vin' = [vin EXCEPT ![p] = v]
    /\ anomalyId' = [anomalyId EXCEPT ![p] = a]
    /\ afterAck' = [afterAck EXCEPT ![p] = \E q \in Procs : AckSucceeded(q, v, a)]

\* return cb(err, data): the outcome is delivered and the invocation ends.
Return(p, err, data) ==
    /\ cb(p, err, data)
    /\ pc' = [pc EXCEPT ![p] = "done"]
    /\ UNCHANGED calls

\* The store answers the call p waits for with (err, data).
Answered(p, err, data) ==
    /\ replies' = [replies EXCEPT ![p] = Append(@, err)]
    /\ reads' = [reads EXCEPT ![p] = Append(@, data)]

\* What a read (get or query) answers: an error, or the data now in the table.
ReadAnswers(p) ==
    {[err |-> e, data |-> Null] : e \in StoreErrors} \cup
    {[err |-> Null,
      data |-> IF Pending(p).method = "query" THEN DocQuery(tables, Pending(p).params)
               ELSE DocGet(tables, Pending(p).params)]}

\* object.field = value
SetField(obj, field, value) ==
    [k \in DOMAIN obj \cup {field} |-> IF k = field THEN value ELSE obj[k]]

\* ------------------------------------------------------------------ listAnomaliesByVehicle

listAnomaliesByVehicle(p, t, v) ==
    /\ MayStart(p)
    /\ Enter(p, "list", t, v, "none")
    /\ Issue(p, "get", OwnerParams(t, v), "owner.get")
    /\ UNCHANGED <<tables, anomaly_data, replies, reads, cbs, external>>

\* listOwnerCallback without the return after cb(err, null): the code after the
\* error branch runs too, finds no data and calls cb again.
listOwnerCallback_NoReturn(p, err, data) ==
    IF Truthy(err)
    THEN /\ cbs' = [cbs EXCEPT ![p] = Append(Append(@, [err |-> err, data |-> Null]),
                                             [err |-> NotRegistered, data |-> Null])]
         /\ pc' = [pc EXCEPT ![p] = "done"]
         /\ UNCHANGED calls
    ELSE IF ~isEmpty(data)
    THEN Issue(p, "query",
               [TableName |-> ddbTable,
                KeyConditionExpression |-> "vin = :vin",
                ExpressionAttributeValues |-> [k \in {":vin"} |-> vin[p]]],
               "anomaly.query")
         /\ UNCHANGED cbs
    ELSE Return(p, NotRegistered, Null)

\* listOwnerCallback that binds :vin to the wrong attribute of the ownership
\* record.
listOwnerCallback_WrongVin(p, err, data) ==
    IF Truthy(err) THEN Return(p, err, Null)
    ELSE IF ~isEmpty(data)
    THEN Issue(p, "query",
               [TableName |-> ddbTable,
                KeyConditionExpression |-> "vin = :vin",
                ExpressionAttributeValues |-> [k \in {":vin"} |-> data.Item.owner_id]],
               "anomaly.query")
         /\ UNCHANGED cbs
    ELSE Return(p, NotRegistered, Null)

\* callback of the ownership get
listOwnerCallback(p, err, data) ==
    IF Truthy(err) THEN Return(p, err, Null)
    ELSE IF ~isEmpty(data)
    THEN Issue(p, "query",
               [TableName |-> ddbTable,
                KeyConditionExpression |-> "vin = :vin",
                ExpressionAttributeValues |-> [k \in {":vin"} |-> vin[p]]],
               "anomaly.query")
         /\ UNCHANGED cbs
    ELSE Return(p, NotRegistered, Null)

\* callback of the anomaly query
listQueryCallback(p, err, anomaly_data_) ==
    IF Truthy(err) THEN Return(p, err, Null)
    ELSE Return(p, Null, anomaly_data_)

listOwnerReply(p) ==
    /\ op[p] = "list" /\ pc[p] = "owner.get"
    /\ \E r \in ReadAnswers(p) :
          Answered(p, r.err, r.data) /\ listOwnerCallback(p, r.err, r.data)
    /\ UNCHANGED <<tables, op, ticket, vin, anomalyId, anomaly_data, afterAck, external>>

listQueryReply(p) ==
    /\ op[p] = "list" /\ pc[p] = "anomaly.query"
    /\ \E r \in ReadAnswers(p) :
          Answered(p, r.err, r.data) /\ listQueryCallback(p, r.err, r.data)
    /\ UNCHANGED <<tables, op, ticket, vin, anomalyId, anomaly_data, afterAck, external>>

\* ------------------------------------------------------------------ getVehicleAnomaly

getVehicleAnomaly(p, t, v, a) ==
    /\ MayStart(p)
    /\ Enter(p, "get", t, v, a)
    /\ Issue(p, "get", OwnerParams(t, v), "owner.get")
    /\ UNCHANGED <<tables, anomaly_data, replies, reads, cbs, external>>

\* The point lookup of the anomaly table.
AnomalyParams(p) ==
    [TableName |-> ddbTable, Key |-> [vin |-> vin[p], anomaly_id |-> anomalyId[p]]]

\* getOwnerCallback that reads the anomaly record whatever the ownership
\* lookup found.
getOwnerCallback_NoGate(p, err, data) ==
    IF Truthy(err) THEN Return(p, err, Null)
    ELSE Issue(p, "get", AnomalyParams(p), "anomaly.get") /\ UNCHANGED cbs

\* getOwnerCallback that goes on to the anomaly table after a failed lookup.
getOwnerCallback_ErrContinues(p, err, data) ==
    IF Truthy(err) \/ ~isEmpty(data)
    THEN Issue(p, "get", AnomalyParams(p), "anomaly.get") /\ UNCHANGED cbs
    ELSE Return(p, NotRegistered, Null)

\* callback of the ownership get
getOwnerCallback(p, err, data) ==
    IF Truthy(err) THEN Return(p, err, Null)
    ELSE IF ~isEmpty(data)
    THEN Issue(p, "get", AnomalyParams(p), "anomaly.get") /\ UNCHANGED cbs
    ELSE Return(p, NotRegistered, Null)

\* getAnomalyCallback that writes the record back, marked as viewed, before it
\* returns it.
getAnomalyCallback_Touch(p, err, anomaly_data_) ==
    IF Truthy(err) THEN Return(p, err, Null)
    ELSE IF ~isEmpty(anomaly_data_)
    THEN Issue(p, "put",
               [TableName |-> ddbTable, Item |-> SetField(anomaly_data_.Item, "viewed", TRUE)],
               "anomaly.put")
         /\ UNCHANGED cbs
    ELSE Return(p, NotExists, Null)

\* getAnomalyCallback that reads once more when the first get finds no record.
getAnomalyCallback_Retry(p, err, anomaly_data_) ==
    IF Truthy(err) THEN Return(p, err, Null)
    ELSE IF ~isEmpty(anomaly_data_) THEN Return(p, Null, anomaly_data_.Item)
    ELSE IF Len(calls[p]) < 3
    THEN Issue(p, "get", AnomalyParams(p), "anomaly.get") /\ UNCHANGED cbs
    ELSE Return(p, NotExists, Null)

\* getAnomalyCallback that marks the record it returns as acknowledged.
getAnomalyCallback_Acks(p, err, anomaly_data_) ==
    IF Truthy(err) THEN Return(p, err, Null)
    ELSE IF ~isEmpty(anomaly_data_)
    THEN Return(p, Null, SetField(anomaly_data_.Item, "acknowledged", TRUE))
    ELSE Return(p, NotExists, Null)

\* getAnomalyCallback that reports a missing record with the message of the
\* ownership check.
getAnomalyCallback_WrongError(p, err, anomaly_data_) ==
    IF Truthy(err) THEN Return(p, err, Null)
    ELSE IF ~isEmpty(anomaly_data_) THEN Return(p, Null, anomaly_data_.Item)
    ELSE Return(p, NotRegistered, Null)

\* callback of the anomaly get
getAnomalyCallback(p, err, anomaly_data_) ==
    IF Truthy(err) THEN Return(p, err, Null)
    ELSE IF ~isEmpty(anomaly_data_) THEN Return(p, Null, anomaly_data_.Item)
    ELSE Return(p, NotExists, Null)

getOwnerReply(p) ==
    /\ op[p] = "get" /\ pc[p] = "owner.get"
    /\ \E r \in ReadAnswers(p) :
          Answered(p, r.err, r.data) /\ getOwnerCallback(p, r.err, r.data)
    /\ UNCHANGED <<tables, op, ticket, vin, anomalyId, anomaly_data, afterAck, external>>

getAnomalyReply(p) ==
    /\ op[p] = "get" /\ pc[p] = "anomaly.get"
    /\ \E r \in ReadAnswers(p) :
          Answered(p, r.err, r.data) /\ getAnomalyCallback(p, r.err, r.data)
    /\ UNCHANGED <<tables, op, ticket, vin, anomalyId, anomaly_data, afterAck, external>>

\* ------------------------------------------------------------------ acknowledgeVehicleAnomaly

acknowledgeVehicleAnomaly(p, t, v, a) ==
    /\ MayStart(p)
    /\ Enter(p, "acknowledge", t, v, a)
    /\ Issue(p, "get", OwnerParams(t, v), "owner.get")
    /\ UNCHANGED <<tables, anomaly_data, replies, reads, cbs, external>>

\* ackOwnerCallback without the check of the ownership record.
ackOwnerCallback_NoGate(p, err, data) ==
    IF Truthy(err) THEN Return(p, err, Null)
    ELSE Issue(p, "get", AnomalyParams(p), "anomaly.get") /\ UNCHANGED cbs

\* callback of the ownership get
ackOwnerCallback(p, err, data) ==
    IF Truthy(err) THEN Return(p, err, Null)
    ELSE IF ~isEmpty(data)
    THEN Issue(p, "get", AnomalyParams(p), "anomaly.get") /\ UNCHANGED cbs
    ELSE Return(p, NotRegistered, Null)

\* Acknowledged that builds a new item from the key instead of changing the
\* item read.
Acknowledged_KeyOnly(anomaly_data_) ==
    [Item |-> [vin |-> anomaly_data_.Item.vin,
               anomaly_id |-> anomaly_data_.Item.anomaly_id,
               acknowledged |-> TRUE]]

\* Acknowledged that flips the flag instead of setting it.
Acknowledged_Toggle(anomaly_data_) ==
    [anomaly_data_ EXCEPT !.Item = SetField(@, "acknowledged", ~@.acknowledged)]

\* Acknowledged that leaves the item as it was read.
Acknowledged_NoSet(anomaly_data_) == anomaly_data_

\* anomaly_data.Item.acknowledged = true
Acknowledged(anomaly_data_) ==
    [anomaly_data_ EXCEPT !.Item = SetField(@, "acknowledged", TRUE)]

\* ackAnomalyCallback that creates the record, acknowledged, when the get
\* finds none.
ackAnomalyCallback_Upsert(p, err, anomaly_data_) ==
    IF Truthy(err) THEN Return(p, err, Null) /\ UNCHANGED anomaly_data
    ELSE LET found == IF ~isEmpty(anomaly_data_) THEN Acknowledged(anomaly_data_)
                      ELSE [Item |-> [vin |-> vin[p], anomaly_id |-> anomalyId[p],
                                      acknowledged |-> TRUE]]
         IN /\ anomaly_data' = [anomaly_data EXCEPT ![p] = found]
            /\ Issue(p, "put", [TableName |-> ddbTable, Item |-> found.Item], "anomaly.put")
            /\ UNCHANGED cbs

\* callback of the anomaly get
ackAnomalyCallback(p, err, anomaly_data_) ==
    IF Truthy(err) THEN Return(p, err, Null) /\ UNCHANGED anomaly_data
    ELSE IF ~isEmpty(anomaly_data_)
    THEN /\ anomaly_data' = [anomaly_data EXCEPT ![p] = Acknowledged(anomaly_data_)]
         /\ Issue(p, "put",
                  [TableName |-> ddbTable, Item |-> Acknowledged(anomaly_data_).Item],
                  "anomaly.put")
         /\ UNCHANGED cbs
    ELSE Return(p, NotExists, Null) /\ UNCHANGED anomaly_data

\* ackPutCallback that treats the empty answer of the put like the empty
\* answer of a get.
ackPutCallback_EmptyCheck(p, err, data) ==
    IF Truthy(err) THEN Return(p, err, Null)
    ELSE IF ~isEmpty(data) THEN Return(p, Null, anomaly_data[p].Item)
    ELSE Return(p, NotExists, Null)

\* ackPutCallback that wraps the store's error in an error object of its own.
ackPutCallback_Wrapped(p, err, data) ==
    IF Truthy(err) THEN Return(p, [error |-> [message |-> err.message]], Null)
    ELSE Return(p, Null, anomaly_data[p].Item)

\* ackPutCallback that does not look at err.
ackPutCallback_IgnoreErr(p, err, data) == Return(p, Null, anomaly_data[p].Item)

\* callback of the anomaly put
ackPutCallback(p, err, data) ==
    IF Truthy(err) THEN Return(p, err, Null)
    ELSE Return(p, Null, anomaly_data[p].Item)

ackOwnerReply(p) ==
    /\ op[p] = "acknowledge" /\ pc[p] = "owner.get"
    /\ \E r \in ReadAnswers(p) :
          Answered(p, r.err, r.data) /\ ackOwnerCallback(p, r.err, r.data)
    /\ UNCHANGED <<tables, op, ticket, vin, anomalyId, anomaly_data, afterAck, external>>

ackAnomalyReply(p) ==
    /\ op[p] = "acknowledge" /\ pc[p] = "anomaly.get"
    /\ \E r \in ReadAnswers(p) :
          Answered(p, r.err, r.data) /\ ackAnomalyCallback(p, r.err, r.data)
    /\ UNCHANGED <<tables, op, ticket, vin, anomalyId, afterAck, external>>

\* ackPutReply with a conditional put: the item is written only while the table
\* still holds the record as it was read, and the put fails otherwise.
ackPutReply_Conditional(p) ==
    /\ op[p] = "acknowledge" /\ pc[p] = "anomaly.put"
    /\ \/ \E e \in StoreErrors :
             /\ UNCHANGED tables
             /\ Answered(p, e, Null) /\ ackPutCallback(p, e, Null)
       \/ /\ \E item \in tables[ddbTable] : item = reads[p][2].Item
          /\ tables' = DocPut(tables, Pending(p).params)
          /\ Answered(p, Null, EmptyObj) /\ ackPutCallback(p, Null, EmptyObj)
    /\ UNCHANGED <<op, ticket, vin, anomalyId, anomaly_data, afterAck, external>>

\* The put is answered: with an error and the table as it was, or with the
\* item written and no error.
ackPutReply(p) ==
    /\ op[p] = "acknowledge" /\ pc[p] = "anomaly.put"
    /\ \/ \E e \in StoreErrors :
             /\ UNCHANGED tables
             /\ Answered(p, e, Null) /\ ackPutCallback(p, e, Null)
       \/ /\ tables' = DocPut(tables, Pending(p).params)
          /\ Answered(p, Null, EmptyObj) /\ ackPutCallback(p, Null, EmptyObj)
    /\ UNCHANGED <<op, ticket, vin, anomalyId, anomaly_data, afterAck, external>>

\* ------------------------------------------------------------------ specification

Invoke(p) ==
    \E u \in Users, v \in Vins :
        \/ listAnomaliesByVehicle(p, Ticket(u), v)
        \/ \E a \in AnomalyIds : getVehicleAnomaly(p, Ticket(u), v, a)
        \/ \E a \in AnomalyIds : acknowledgeVehicleAnomaly(p, Ticket(u), v, a)

Reply(p) ==
    \/ listOwnerReply(p)
    \/ listQueryReply(p)
    \/ getOwnerReply(p)
    \/ getAnomalyReply(p)
    \/ ackOwnerReply(p)
    \/ ackAnomalyReply(p)
    \/ ackPutReply(p)

\* Invocations run concurrently: any may start while others wait for the store.
Next == \E p \in Procs : Invoke(p) \/ Reply(p)

Spec == Init /\ [][Next]_vars

\* Invocations run one after the other: none starts while another is in flight.
Quiet == \A q \in Procs : pc[q] \in {"idle", "done"}

NextSeq == \E p \in Procs : (Quiet /\ Invoke(p)) \/ Reply(p)

SpecSeq == Init /\ [][NextSeq]_vars

\* The item the writer outside the service puts over a record: the record
\* ingested again, unacknowledged, with a new diagnostic code.
Reingested(item) == [item EXCEPT !.acknowledged = FALSE, !.code = "U0100"]

\* The external writer overwrites a record of the anomaly table (a full
\* overwrite, answered without error).
ExternalPut ==
    /\ external.puts < MaxExternalPuts
    /\ \E item \in tables[ddbTable] :
          /\ tables' = DocPut(tables, [TableName |-> ddbTable, Item |-> Reingested(item)])
          /\ external' = [item |-> Reingested(item), puts |-> external.puts + 1]
    /\ UNCHANGED <<pc, op, ticket, vin, anomalyId, anomaly_data, calls, replies, reads,
                   cbs, afterAck>>

\* Acknowledges, run concurrently, with the external writer.
NextExt ==
    \/ \E p \in Procs :
          \/ \E u \in Users, v \in Vins, a \in AnomalyIds :
                acknowledgeVehicleAnomaly(p, Ticket(u), v, a)
          \/ ackOwnerReply(p)
          \/ ackAnomalyReply(p)
          \/ ackPutReply(p)
    \/ ExternalPut

SpecExt == Init /\ [][NextExt]_vars

TypeOK ==
    /\ \A p \in Procs : pc[p] \in {"idle", "owner.get", "anomaly.query", "anomaly.get",
                                   "anomaly.put", "done"}
    /\ \A p \in Procs : Len(replies[p]) <= Len(calls[p])

\* ------------------------------------------------------------------ vocabulary of the properties

Started(p) == pc[p] # "idle"
Done(p) == pc[p] = "done"
Waiting(p) == pc[p] \notin {"idle", "done"}

\* The outcome delivered to the caller of p.
Outcome(p) == cbs[p][1]

Kind(o) ==
    IF o.err = Null THEN "Success"
    ELSE IF o.err = NotRegistered THEN "AuthorizationError"
    ELSE IF o.err = NotExists THEN "NotFoundError"
    ELSE IF o.err \in StoreErrors THEN "StoreError"
    ELSE "Other"

\* An OwnershipRecord exists for the caller and the vehicle of p.
Owned(p) ==
    \E item \in tables[ownerTable] :
        item.owner_id = ticket[p]["cognito:username"] /\ item.vin = vin[p]

\* The calls p has issued to the anomaly table.
AnomalyCalls(p) == {k \in 1..Len(calls[p]) : calls[p][k].params.TableName = ddbTable}

\* The k-th store call of p was answered with an error.
Failed(p, k) == k <= Len(replies[p]) /\ replies[p][k] # Null

\* No store call of p was answered with an error.
NoFailure(p) == \A k \in 1..Len(replies[p]) : replies[p][k] = Null

\* The anomaly record of the key p names, as the table holds it now.
Stored(p) == {item \in tables[ddbTable] : item.vin = vin[p] /\ item.anomaly_id = anomalyId[p]}

\* A record without its acknowledged field.
Rest(item) == [k \in DOMAIN item \ {"acknowledged"} |-> item[k]]

\* ------------------------------------------------------------------ C1

\* C1: an invocation (of any of the three operations) whose (identity, vin)
\* pair has no OwnershipRecord never issues a call to the anomaly table (no
\* query, no get, no put), and it ends with the AuthorizationError; the one
\* other way it can end is the StoreError of a failed ownership lookup.
C1_OwnershipGating ==
    \A p \in Procs :
        (Started(p) /\ ~Owned(p)) =>
            /\ AnomalyCalls(p) = {}
            /\ Done(p) =>
                  /\ Outcome(p).data = Null
                  /\ IF Failed(p, 1) THEN Kind(Outcome(p)) = "StoreError"
                     ELSE Outcome(p).err = NotRegistered

\* Two invocations without ownership have ended with the AuthorizationError:
\* an acknowledge of a record that exists and a get or list.
C1_Witness ==
    \E p, q \in Procs :
        /\ Done(p) /\ ~Owned(p) /\ op[p] = "acknowledge" /\ Stored(p) # {}
        /\ Kind(Outcome(p)) = "AuthorizationError"
        /\ Done(q) /\ ~Owned(q) /\ op[q] \in {"get", "list"}
        /\ Kind(Outcome(q)) = "AuthorizationError"

\* ------------------------------------------------------------------ C2

\* C2: a getVehicleAnomaly of an authorized caller that starts after an
\* acknowledgeVehicleAnomaly of the same (vin, anomalyId) has reported
\* success returns a record with acknowledged = true; it returns a record
\* whenever its store calls are answered without error.
C2_AcknowledgePersists ==
    \A p \in Procs :
        (Done(p) /\ op[p] = "get" /\ afterAck[p] /\ Owned(p)) =>
            /\ NoFailure(p) => Kind(Outcome(p)) = "Success"
            /\ Kind(Outcome(p)) \in {"Success", "StoreError"}
            /\ Kind(Outcome(p)) = "Success" => Outcome(p).data.acknowledged = TRUE

\* A get that started after a successful acknowledge of its record has
\* returned the record.
C2_Witness ==
    \E p \in Procs :
        /\ Done(p) /\ op[p] = "get" /\ afterAck[p] /\ Owned(p)
        /\ Kind(Outcome(p)) = "Success" /\ Outcome(p).data.acknowledged = TRUE

\* ------------------------------------------------------------------ C3

\* Invocation p is an acknowledge by an authorized caller that directly
\* follows a successful acknowledge of the same (vin, anomalyId).
SecondAck(p) ==
    /\ p > 1 /\ op[p] = "acknowledge" /\ Owned(p)
    /\ AckSucceeded(p - 1, vin[p], anomalyId[p])

\* C3: when invocations run in sequence and an acknowledge directly follows a
\* successful acknowledge of the same existing record, the second succeeds
\* whenever the store answers without error, both return acknowledged = true,
\* every other field of both returned records and of the stored record equals
\* the value the record had before the first acknowledge, and the put of the
\* second leaves the tables as the first left them.
C3_AcknowledgeIdempotent ==
    [][\A p \in Procs :
          (SecondAck(p) /\ Waiting(p) /\ Done(p)') =>
              LET first == cbs[p - 1][1].data
                  second == cbs'[p][1]
                  pre == reads[p - 1][2].Item
              IN /\ NoFailure(p)' => second.err = Null
                 /\ second.err = Null =>
                       /\ first.acknowledged = TRUE
                       /\ second.data.acknowledged = TRUE
                       /\ Rest(first) = Rest(pre)
                       /\ Rest(second.data) = Rest(pre)
                       /\ Stored(p)' = {second.data}
                       /\ tables' = tables]_vars

\* Two acknowledges of a record that was not acknowledged before have
\* succeeded one after the other.
C3_Witness ==
    \E p \in Procs :
        /\ SecondAck(p) /\ Done(p) /\ Kind(Outcome(p)) = "Success"
        /\ reads[p - 1][2].Item.acknowledged = FALSE

\* ------------------------------------------------------------------ C4

\* C4: a getVehicleAnomaly or acknowledgeVehicleAnomaly of an authorized
\* caller for an anomalyId without a record under vin ends with the
\* NotFoundError (with the StoreError when a store call failed), which is a
\* different error value from the AuthorizationError, and it issues no put.
C4_NotFoundDistinct ==
    /\ NotExists # NotRegistered
    /\ \A p \in Procs :
          (Done(p) /\ Owned(p) /\ op[p] \in {"get", "acknowledge"} /\ Stored(p) = {}) =>
              /\ \A k \in 1..Len(calls[p]) : calls[p][k].method # "put"
              /\ IF NoFailure(p)
                 THEN Outcome(p) = [err |-> NotExists, data |-> Null]
                 ELSE Kind(Outcome(p)) = "StoreError"

\* An authorized get and an authorized acknowledge of a missing record have
\* both ended with the NotFoundError.
C4_Witness ==
    \E p, q \in Procs :
        /\ Done(p) /\ Owned(p) /\ op[p] = "get" /\ Stored(p) = {}
        /\ Kind(Outcome(p)) = "NotFoundError"
        /\ Done(q) /\ Owned(q) /\ op[q] = "acknowledge" /\ Stored(q) = {}
        /\ Kind(Outcome(q)) = "NotFoundError"

\* ------------------------------------------------------------------ C5

\* The set of the elements of a sequence.
Range(seq) == {seq[i] : i \in 1..Len(seq)}

\* C5: a listAnomaliesByVehicle of an authorized caller whose store calls are
\* answered without error succeeds, and the Items it returns are exactly the
\* records the anomaly table holds for vin at the time of the query, each
\* once: every record of vin, and no record of another vehicle.
C5_ListScoping ==
    [][\A p \in Procs :
          (op[p] = "list" /\ Owned(p) /\ Waiting(p) /\ Done(p)') =>
              LET o == cbs'[p][1]
              IN IF NoFailure(p)'
                 THEN /\ pc[p] = "anomaly.query"
                      /\ o.err = Null
                      /\ Range(o.data.Items) = {item \in tables[ddbTable] : item.vin = vin[p]}
                      /\ Len(o.data.Items) = Cardinality(Range(o.data.Items))
                 ELSE Kind(o) = "StoreError"]_vars

\* An authorized list has returned two records while the table holds a
\* record of another vehicle.
C5_Witness ==
    \E p \in Procs :
        /\ Done(p) /\ op[p] = "list" /\ Owned(p) /\ Kind(Outcome(p)) = "Success"
        /\ Len(Outcome(p).data.Items) = 2
        /\ \E item \in tables[ddbTable] : item.vin # vin[p]

\* ------------------------------------------------------------------ C6

\* The four outcomes: data without an error, or one of the errors without data.
WellFormed(o) ==
    \/ o.err = Null /\ o.data # Null
    \/ o.err \in {NotRegistered, NotExists} \cup StoreErrors /\ o.data = Null

\* C6: cb is never called twice; an invocation that waits for a store call
\* has not called cb and the answer of that call can be taken; an invocation
\* with no store call pending has called cb exactly once, with one of:
\* success with data, AuthorizationError, NotFoundError, StoreError, and never
\* with both an error and data.
C6_OneOutcome ==
    \A p \in Procs :
        /\ Len(cbs[p]) <= 1
        /\ ~Started(p) => cbs[p] = <<>> /\ calls[p] = <<>>
        /\ Waiting(p) =>
              /\ cbs[p] = <<>>
              /\ Len(calls[p]) = Len(replies[p]) + 1
              /\ ENABLED Reply(p)
        /\ Done(p) =>
              /\ Len(cbs[p]) = 1
              /\ Len(calls[p]) = Len(replies[p])
              /\ WellFormed(Outcome(p))
              /\ Kind(Outcome(p)) \in {"Success", "AuthorizationError", "NotFoundError", "StoreError"}

\* Two invocations have ended, one with data and one with a store error.
C6_Witness ==
    \E p, q \in Procs :
        /\ Done(p) /\ Kind(Outcome(p)) = "Success" /\ Outcome(p).data # Null
        /\ Done(q) /\ Kind(Outcome(q)) = "StoreError" /\ Len(cbs[q]) = 1

\* ------------------------------------------------------------------ C7

\* C7: the store call that is answered with an error is the last call of its
\* invocation, which ends there with the StoreError: after a failed ownership
\* lookup no call to the anomaly table is issued (all three operations), and
\* after a failed anomaly read acknowledgeVehicleAnomaly issues no put.  An
\* invocation that ends with any error has no store call left pending.
C7_ShortCircuit ==
    \A p \in Procs :
        /\ \A k \in 1..Len(replies[p]) :
              Failed(p, k) =>
                  /\ Len(calls[p]) = k
                  /\ Done(p)
                  /\ Kind(Outcome(p)) = "StoreError"
        /\ Failed(p, 1) => AnomalyCalls(p) = {}
        /\ Failed(p, 2) => \A k \in 1..Len(calls[p]) : calls[p][k].method # "put"
        /\ (Done(p) /\ Outcome(p).err # Null) => Len(calls[p]) = Len(replies[p])

\* An ownership lookup has failed in one invocation and the anomaly read of
\* an acknowledge in another.
C7_Witness ==
    \E p, q \in Procs :
        /\ Done(p) /\ Failed(p, 1) /\ Kind(Outcome(p)) = "StoreError"
        /\ Done(q) /\ op[q] = "acknowledge" /\ Failed(q, 2)
        /\ Kind(Outcome(q)) = "StoreError"

\* ------------------------------------------------------------------ C8

\* An error object of the service's own shape: {error: {message: ...}}.
IsStructured(e) == DOMAIN e = {"error"} /\ DOMAIN e.error = {"message"}

\* C8 as stated: whenever a store call of an invocation fails, the error the
\* caller receives is a structured error object and not the store's own error
\* value.
C8_StoreErrorsWrapped ==
    \A p \in Procs :
        Done(p) =>
            \A k \in 1..Len(replies[p]) :
                Failed(p, k) =>
                    /\ IsStructured(Outcome(p).err)
                    /\ Outcome(p).err # replies[p][k]

\* C8, amended: the errors the service raises itself (vehicle not registered,
\* anomaly record missing) are structured values {error: {message}}; when a
\* store call fails (ownership get, anomaly query or get, anomaly put) the
\* caller receives the store's own error value, unchanged, with no data.
C8_ErrorsAsDelivered ==
    \A p \in Procs :
        Done(p) =>
            IF NoFailure(p)
            THEN Outcome(p).err # Null =>
                    /\ IsStructured(Outcome(p).err)
                    /\ Outcome(p).err \in {NotRegistered, NotExists}
            ELSE /\ Outcome(p).err = replies[p][Len(replies[p])]
                 /\ Outcome(p).err \in StoreErrors
                 /\ Outcome(p).data = Null

\* The put of an acknowledge has failed and its caller holds the store's
\* error; another caller holds a structured error of the service.
C8_Witness ==
    \E p, q \in Procs :
        /\ Done(p) /\ op[p] = "acknowledge" /\ Failed(p, 3)
        /\ Outcome(p).err = replies[p][3]
        /\ Done(q) /\ NoFailure(q) /\ Outcome(q).err # Null

\* ------------------------------------------------------------------ C9

\* C9: an acknowledgeVehicleAnomaly that reports success has issued, as its
\* third and last store call, a put to the anomaly table that was answered
\* without error; the record it returns is the record its get read with
\* acknowledged set to true, and it is the Item of that put.
C9_AckAfterPut ==
    \A p \in Procs :
        (Done(p) /\ op[p] = "acknowledge" /\ Kind(Outcome(p)) = "Success") =>
            /\ Len(calls[p]) = 3 /\ NoFailure(p)
            /\ calls[p][3].method = "put"
            /\ calls[p][3].params.TableName = ddbTable
            /\ Outcome(p).data = SetField(reads[p][2].Item, "acknowledged", TRUE)
            /\ Outcome(p).data = calls[p][3].params.Item

\* An acknowledge of a record read as unacknowledged has reported success.
C9_Witness ==
    \E p \in Procs :
        /\ Done(p) /\ op[p] = "acknowledge" /\ Kind(Outcome(p)) = "Success"
        /\ reads[p][2].Item.acknowledged = FALSE

\* ------------------------------------------------------------------ C10

\* C10: when the anomaly get of a getVehicleAnomaly by an authorized caller is
\* answered without error and the table holds a record for (vin, anomalyId),
\* the call succeeds and returns that record exactly as the table holds it at
\* that moment: the same fields with the same values.
C10_GetUnmodified ==
    [][\A p \in Procs :
          (op[p] = "get" /\ Owned(p) /\ pc[p] = "anomaly.get" /\ Done(p)'
             /\ Stored(p) # {}) =>
              IF NoFailure(p)'
              THEN /\ cbs'[p][1].err = Null
                   /\ Stored(p) = {cbs'[p][1].data}
              ELSE Kind(cbs'[p][1]) = "StoreError"]_vars

\* An authorized get has returned an unacknowledged record with its payload.
C10_Witness ==
    \E p \in Procs :
        /\ Done(p) /\ op[p] = "get" /\ Owned(p) /\ Kind(Outcome(p)) = "Success"
        /\ Outcome(p).data.acknowledged = FALSE
        /\ Outcome(p).data.code = "P0171"

\* ------------------------------------------------------------------ C11

\* The put of p is answered without error, p reports success and the table
\* then holds the copy p read earlier (with acknowledged set).
PutOverwrites(p) ==
    /\ ackPutReply(p)
    /\ cbs'[p][1].err = Null
    /\ Stored(p)' = {anomaly_data[p].Item}

\* C11: the put of an acknowledge is never held back by what the table holds:
\* whatever was written to the record since the acknowledge read it (by
\* another acknowledge or by the external writer), the put can be answered
\* without error, it replaces the record by the copy read earlier, and the
\* acknowledge reports success.
C11_UnguardedPut ==
    \A p \in Procs :
        (op[p] = "acknowledge" /\ pc[p] = "anomaly.put") => ENABLED PutOverwrites(p)

\* A lost update: with no other invocation started, the external writer has
\* overwritten the record after the acknowledge read it (the acknowledge read
\* another diagnostic code), the acknowledge has put its stale copy over it
\* and has reported success, and the table no longer holds the external write.
C11_Witness ==
    \E p \in Procs :
        /\ \A q \in Procs \ {p} : pc[q] = "idle"
        /\ Done(p) /\ op[p] = "acknowledge" /\ Kind(Outcome(p)) = "Success"
        /\ external.puts > 0
        /\ external.item.vin = vin[p] /\ external.item.anomaly_id = anomalyId[p]
        /\ reads[p][2].Item.code # external.item.code
        /\ Stored(p) = {Outcome(p).data}
        /\ external.item \notin tables[ddbTable]

\* ------------------------------------------------------------------ C12

\* The store calls of p that are issued and not answered yet.
InFlight(p) == Len(calls[p]) - Len(replies[p])

\* C12 as stated: every invocation of the three operations issues at most two
\* store calls, and at most one of them is in flight at any time.
C12_AtMostTwoCalls ==
    \A p \in Procs : Len(calls[p]) <= 2 /\ InFlight(p) <= 1

\* C12, amended: listAnomaliesByVehicle and getVehicleAnomaly issue at most two
\* store calls (ownership get, then anomaly query or get) and
\* acknowledgeVehicleAnomaly at most three (ownership get, anomaly get, anomaly
\* put); the calls of an invocation form one chain, each issued when the one
\* before it has been answered, so at most one is in flight at any time.
C12_CallChain ==
    \A p \in Procs :
        /\ Len(calls[p]) <= (IF op[p] = "acknowledge" THEN 3 ELSE 2)
        /\ InFlight(p) \in {0, 1}
        /\ InFlight(p) = 1 <=> Waiting(p)
        /\ \A k \in 1..Len(calls[p]) :
              /\ k = 1 => calls[p][k].method = "get" /\ calls[p][k].params.TableName = ownerTable
              /\ k = 2 => /\ calls[p][k].method = (IF op[p] = "list" THEN "query" ELSE "get")
                          /\ calls[p][k].params.TableName = ddbTable
              /\ k = 3 => calls[p][k].method = "put" /\ calls[p][k].params.TableName = ddbTable

\* An acknowledge has ended after three store calls and a list or get after
\* two.
C12_Witness ==
    \E p, q \in Procs :
        /\ Done(p) /\ op[p] = "acknowledge" /\ Len(calls[p]) = 3
        /\ Done(q) /\ op[q] \in {"list", "get"} /\ Len(calls[q]) = 2

\* ------------------------------------------------------------------ C13

\* C13: no step changes the ownership table; a step that changes the anomaly
\* table is the answered put of an acknowledgeVehicleAnomaly; no step of a
\* listAnomaliesByVehicle or getVehicleAnomaly changes a table; and the only
\* put any invocation issues is the put of acknowledgeVehicleAnomaly to the
\* anomaly table (every other call is a get or a query).
C13_OnlyAcknowledgeWrites ==
    [][/\ tables'[ownerTable] = tables[ownerTable]
       /\ tables' # tables =>
             \E p \in Procs : op[p] = "acknowledge" /\ pc[p] = "anomaly.put" /\ Done(p)'
       /\ \A p \in Procs :
             (op'[p] \in {"list", "get"} /\ pc'[p] # pc[p]) => tables' = tables
       /\ \A p \in Procs :
             \A k \in 1..Len(calls'[p]) :
                 IF calls'[p][k].method = "put"
                 THEN op'[p] = "acknowledge" /\ calls'[p][k].params.TableName = ddbTable
                 ELSE calls'[p][k].method \in {"get", "query"}]_vars

\* A list and a get of an authorized caller have returned data and the
\* tables are as they were before any invocation.
C13_Witness ==
    \E p, q \in Procs :
        /\ Done(p) /\ op[p] = "list" /\ Kind(Outcome(p)) = "Success"
        /\ Done(q) /\ op[q] = "get" /\ Kind(Outcome(q)) = "Success"
        /\ tables[ddbTable] \in InitAnomalies
        /\ tables[ownerTable] = InitOwners

\* ------------------------------------------------------------------ C14

\* C14: when invocations run in sequence (no other writer is active), the step
\* in which an acknowledgeVehicleAnomaly succeeds replaces the one record of
\* (vin, anomalyId), which is still the record the call read, by that record
\* with acknowledged = true and the same other fields, and leaves every other
\* record of the anomaly table (of the same and of other vehicles) and the
\* ownership table as they were.
C14_ExactlyOneRecord ==
    [][\A p \in Procs :
          (op[p] = "acknowledge" /\ pc[p] = "anomaly.put" /\ Done(p)'
             /\ cbs'[p][1].err = Null) =>
              \E old \in tables[ddbTable] :
                  /\ Stored(p) = {old}
                  /\ old = reads[p][2].Item
                  /\ DOMAIN SetField(old, "acknowledged", TRUE) = DOMAIN old
                  /\ tables'[ddbTable] =
                        (tables[ddbTable] \ {old}) \cup {SetField(old, "acknowledged", TRUE)}
                  /\ tables'[ownerTable] = tables[ownerTable]]_vars

\* An acknowledge of an unacknowledged record has succeeded while the table
\* holds another record of the same vehicle and a record of another vehicle.
C14_Witness ==
    \E p \in Procs :
        /\ Done(p) /\ op[p] = "acknowledge" /\ Kind(Outcome(p)) = "Success"
        /\ reads[p][2].Item.acknowledged = FALSE
        /\ \E r1, r2 \in tables[ddbTable] :
              /\ r1.vin = vin[p] /\ r1.anomaly_id # anomalyId[p]
              /\ r2.vin # vin[p]

\* ------------------------------------------------------------------ C15

C16_AcknowledgedMonotonic ==
    [][\A item \in tables[ddbTable] :
          item.acknowledged = TRUE =>
              \E next \in tables'[ddbTable] :
                  /\ next.vin = item.vin /\ next.anomaly_id = item.anomaly_id
                  /\ next.acknowledged = TRUE]_vars

\* Two acknowledges of the same record have raced (both read it as
\* unacknowledged), both have reported success and the record is acknowledged.
C16_Witness ==
    \E p, q \in Procs :
        /\ p # q /\ vin[p] = vin[q] /\ anomalyId[p] = anomalyId[q]
        /\ Done(p) /\ op[p] = "acknowledge" /\ Kind(Outcome(p)) = "Success"
        /\ Done(q) /\ op[q] = "acknowledge" /\ Kind(Outcome(q)) = "Success"
        /\ reads[p][2].Item.acknowledged = FALSE
        /\ reads[q][2].Item.acknowledged = FALSE
        /\ \A item \in Stored(p) : item.acknowledged = TRUE

\* ------------------------------------------------------------------ C17

\* The primary keys of the items of a table.
Keys(T) == {<<item.vin, item.anomaly_id>> : item \in T}

\* C17: with the service as the only writer, no step changes the set of
\* (vin, anomalyId) keys of the anomaly table, and each key keeps exactly one
\* record; every put an invocation has issued carries the key the invocation
\* was called with, and the get before it found a record of that key.
C17_KeysFixed ==
    [][/\ Keys(tables'[ddbTable]) = Keys(tables[ddbTable])
       /\ Cardinality(tables'[ddbTable]) = Cardinality(Keys(tables'[ddbTable]))
       /\ \A p \in Procs :
             \A k \in 1..Len(calls'[p]) :
                 calls'[p][k].method = "put" =>
                     /\ k = 3
                     /\ ~isEmpty(reads'[p][2])
                     /\ Keys({calls'[p][k].params.Item}) = {<<vin'[p], anomalyId'[p]>>}
                     /\ Keys({reads'[p][2].Item}) = {<<vin'[p], anomalyId'[p]>>}]_vars

\* An acknowledge of a record has succeeded, an acknowledge of a missing
\* record has ended with the NotFoundError, and the missing record is still
\* missing.
C17_Witness ==
    \E p, q \in Procs :
        /\ Done(p) /\ op[p] = "acknowledge" /\ Kind(Outcome(p)) = "Success"
        /\ Done(q) /\ op[q] = "acknowledge" /\ Kind(Outcome(q)) = "NotFoundError"
        /\ <<vin[q], anomalyId[q]>> \notin Keys(tables[ddbTable])
        /\ <<vin[p], anomalyId[p]>> \in Keys(tables[ddbTable])

\* ------------------------------------------------------------------ C18

\* Everything the store has told p: each call's answer, error and data.
Observed(p) == <<replies[p], reads[p]>>

\* C18: what a caller without an OwnershipRecord for vin is told does not
\* depend on the anomaly table. Such an invocation has been answered by the
\* ownership table alone, and any two of them, of the same identity and vin,
\* whose ownership lookups were answered alike have the same outcome, whichever
\* operation each is, whichever anomalyId each names, whether the record
\* named exists or not, and whatever the anomaly table held meanwhile. The
\* outcome is the AuthorizationError unless the ownership lookup itself failed.
C18_NoAnomalyLeak ==
    \A p, q \in Procs :
        ( /\ Done(p) /\ ~Owned(p) /\ Done(q) /\ ~Owned(q)
          /\ ticket[p] = ticket[q] /\ vin[p] = vin[q]
          /\ replies[p][1] = replies[q][1] ) =>
            /\ Len(Observed(p)[2]) = 1
            /\ \A k \in 1..Len(calls[p]) : calls[p][k].params.TableName = ownerTable
            /\ Outcome(p) = Outcome(q)
            /\ replies[p][1] = Null => Kind(Outcome(p)) = "AuthorizationError"

\* Two invocations of the same operation by the same caller, who has no
\* OwnershipRecord for the vin, have ended: one names a record the anomaly
\* table holds, the other one it does not hold.
C18_Witness ==
    \E p, q \in Procs :
        /\ Done(p) /\ ~Owned(p) /\ Done(q) /\ ~Owned(q)
        /\ ticket[p] = ticket[q] /\ vin[p] = vin[q] /\ op[p] = op[q]
        /\ op[p] \in {"get", "acknowledge"}
        /\ Stored(p) # {} /\ Stored(q) = {}
        /\ Kind(Outcome(p)) = "AuthorizationError"
        /\ Kind(Outcome(q)) = "AuthorizationError"

====
